---- MODULE Spec2Model ----
(***************************************************************************)
(* VESWatch API: the rate store (internal/rates/model.go), the service     *)
(* (internal/rates/service.go), the scheduler                              *)
(* (internal/scheduler/scheduler.go) and the part of cmd/server/main.go    *)
(* that drives them.                                                       *)
(*                                                                         *)
(* Rates are Go float64 values.  TLC's integers are 32 bits wide, so a     *)
(* float64 is held as a record [neg, m, e] standing for (+/-) m * 2^e,     *)
(* where the significand m is a multi-limb natural number (base 2^15,      *)
(* least significant limb first) of exactly 53 bits, or the empty          *)
(* sequence for zero.  Every arithmetic step rounds to nearest, ties to    *)
(* even, as IEEE 754 binary64 does.  Subnormals are outside the bounded   *)
(* rate domain; the outcome of a division by zero (an infinity or NaN) is  *)
(* carried as the one value FNonFinite.                                    *)
(***************************************************************************)
EXTENDS Integers, Sequences, FiniteSets, TLC

(***************************************************************************)
(* Multi-limb naturals.                                                    *)
(***************************************************************************)
\* Limbs are 15 bits wide (base 32768): a product of two limbs plus carries
\* stays below 2^31.
RECURSIVE BNorm(_)
BNorm(x) ==
    IF x = <<>> THEN <<>>
    ELSE IF x[Len(x)] = 0 THEN BNorm(SubSeq(x, 1, Len(x) - 1))
    ELSE x

RECURSIVE BFromInt(_)
BFromInt(n) ==
    IF n = 0 THEN <<>> ELSE <<n % 32768>> \o BFromInt(n \div 32768)

RECURSIVE BToInt(_)
BToInt(x) ==
    IF x = <<>> THEN 0 ELSE Head(x) + 32768 * BToInt(Tail(x))

RECURSIVE BCmp(_, _)
BCmp(x, y) ==
    IF Len(x) # Len(y) THEN (IF Len(x) < Len(y) THEN -1 ELSE 1)
    ELSE IF x = <<>> THEN 0
    ELSE IF x[Len(x)] # y[Len(y)] THEN (IF x[Len(x)] < y[Len(y)] THEN -1 ELSE 1)
    ELSE BCmp(SubSeq(x, 1, Len(x) - 1), SubSeq(y, 1, Len(y) - 1))

RECURSIVE BAddC(_, _, _)
BAddC(x, y, c) ==
    IF x = <<>> /\ y = <<>> THEN (IF c = 0 THEN <<>> ELSE <<c>>)
    ELSE LET a == IF x = <<>> THEN 0 ELSE Head(x)
             b == IF y = <<>> THEN 0 ELSE Head(y)
             s == a + b + c
         IN  <<s % 32768>> \o
             BAddC(IF x = <<>> THEN <<>> ELSE Tail(x),
                   IF y = <<>> THEN <<>> ELSE Tail(y), s \div 32768)

BAdd(x, y) == BAddC(x, y, 0)

RECURSIVE BSubC(_, _, _)
BSubC(x, y, c) ==
    IF x = <<>> THEN <<>>
    ELSE LET b == IF y = <<>> THEN 0 ELSE Head(y)
             d == Head(x) - b - c
         IN  <<IF d < 0 THEN d + 32768 ELSE d>> \o
             BSubC(Tail(x), IF y = <<>> THEN <<>> ELSE Tail(y),
                   IF d < 0 THEN 1 ELSE 0)

\* x - y for x >= y
BSub(x, y) == BNorm(BSubC(x, y, 0))

RECURSIVE BMulSmallC(_, _, _)
BMulSmallC(x, k, c) ==
    IF x = <<>> THEN (IF c = 0 THEN <<>> ELSE BFromInt(c))
    ELSE LET p == Head(x) * k + c
         IN  <<p % 32768>> \o BMulSmallC(Tail(x), k, p \div 32768)

\* x * k for 0 <= k <= 32768
BMulSmall(x, k) == BNorm(BMulSmallC(x, k, 0))

RECURSIVE BMul(_, _)
BMul(x, y) ==
    IF y = <<>> \/ x = <<>> THEN <<>>
    ELSE BAdd(BMulSmall(x, Head(y)),
              LET r == BMul(x, Tail(y)) IN IF r = <<>> THEN <<>> ELSE <<0>> \o r)

RECURSIVE Pow2(_)
Pow2(k) == IF k = 0 THEN 1 ELSE 2 * Pow2(k - 1)

RECURSIVE ZeroLimbs(_)
ZeroLimbs(n) == IF n = 0 THEN <<>> ELSE <<0>> \o ZeroLimbs(n - 1)

\* x * 2^k
BShl(x, k) ==
    IF x = <<>> THEN <<>>
    ELSE ZeroLimbs(k \div 15) \o BMulSmall(x, Pow2(k % 15))

RECURSIVE BDivSmallR(_, _, _)
\* quotient of x by the small d, walking from the most significant limb;
\* r is the remainder carried in
BDivSmallR(x, d, r) ==
    IF x = <<>> THEN <<>>
    ELSE LET cur == r * 32768 + x[Len(x)]
         IN  BDivSmallR(SubSeq(x, 1, Len(x) - 1), d, cur % d) \o <<cur \div d>>

\* floor(x / 2^k)
BShr(x, k) ==
    LET drop == k \div 15
    IN  IF drop >= Len(x) THEN <<>>
        ELSE BNorm(BDivSmallR(SubSeq(x, drop + 1, Len(x)), Pow2(k % 15), 0))

RECURSIVE IntBitLen(_)
IntBitLen(n) == IF n = 0 THEN 0 ELSE 1 + IntBitLen(n \div 2)

BBitLen(x) ==
    IF x = <<>> THEN 0 ELSE 15 * (Len(x) - 1) + IntBitLen(x[Len(x)])

BBit(x, i) ==
    IF i \div 15 >= Len(x) THEN 0
    ELSE (x[(i \div 15) + 1] \div Pow2(i % 15)) % 2

BIsOdd(x) == x # <<>> /\ Head(x) % 2 = 1

RECURSIVE BDigit(_, _, _, _)
\* one quotient limb by 15 compare-and-subtract steps: r < d * 2^(j+1)
BDigit(r, d, j, acc) ==
    IF j < 0 THEN [q |-> acc, r |-> r]
    ELSE LET dj == BShl(d, j)
         IN  IF BCmp(r, dj) >= 0
             THEN BDigit(BSub(r, dj), d, j - 1, acc + Pow2(j))
             ELSE BDigit(r, d, j - 1, acc)

RECURSIVE BDivLimbs(_, _, _, _)
\* long division, limbs i .. 1 of n remain, r is the running remainder
BDivLimbs(n, d, i, r) ==
    IF i = 0 THEN [q |-> <<>>, r |-> r]
    ELSE LET cur  == BAdd(BShl(r, 15), BFromInt(n[i]))
             dg   == BDigit(cur, d, 14, 0)
             rest == BDivLimbs(n, d, i - 1, dg.r)
         IN  [q |-> rest.q \o <<dg.q>>, r |-> rest.r]

\* [q, r] with n = q*d + r, 0 <= r < d, for d > 0
BDivMod(n, d) ==
    LET x == BDivLimbs(n, d, Len(n), <<>>) IN [q |-> BNorm(x.q), r |-> x.r]

(***************************************************************************)
(* float64 arithmetic, round to nearest even.                              *)
(***************************************************************************)
FZero == [neg |-> FALSE, m |-> <<>>, e |-> 0]

\* Stands for +Inf, -Inf and NaN, which only a division by zero produces here.
FNonFinite == [neg |-> FALSE, m |-> <<>>, e |-> 1]

IsNonFinite(x) == x = FNonFinite

\* The float64 nearest to (+/-) (m + s) * 2^e, where 0 <= s < 1 and s > 0
\* exactly when sticky.  A sticky m has at least 55 bits.
FRound(neg, m, e, sticky) ==
    LET len == BBitLen(m)
    IN  IF m = <<>> THEN FZero
        ELSE IF len <= 53
        THEN [neg |-> neg, m |-> BShl(m, 53 - len), e |-> e - (53 - len)]
        ELSE LET k    == len - 53
                 q    == BShr(m, k)
                 rem  == BSub(m, BShl(q, k))
                 half == BShl(<<1>>, k - 1)
                 c    == BCmp(rem, half)
                 up   == c > 0 \/ (c = 0 /\ (sticky \/ BIsOdd(q)))
                 q2   == IF up THEN BAdd(q, <<1>>) ELSE q
             IN  IF BBitLen(q2) > 53
                 THEN [neg |-> neg, m |-> BShr(q2, 1), e |-> e + k + 1]
                 ELSE [neg |-> neg, m |-> q2, e |-> e + k]

\* float64(n) for an int n
FFromInt(n) == FRound(n < 0, BFromInt(IF n < 0 THEN -n ELSE n), 0, FALSE)

FNeg(x) == IF x.m = <<>> THEN x ELSE [x EXCEPT !.neg = ~x.neg]

\* x + y
FAdd(x, y) ==
    IF IsNonFinite(x) \/ IsNonFinite(y) THEN FNonFinite
    ELSE IF x.m = <<>> THEN y
    ELSE IF y.m = <<>> THEN x
    ELSE LET emin == IF x.e < y.e THEN x.e ELSE y.e
             mx   == BShl(x.m, x.e - emin)
             my   == BShl(y.m, y.e - emin)
             c    == BCmp(mx, my)
         IN  IF x.neg = y.neg THEN FRound(x.neg, BAdd(mx, my), emin, FALSE)
             ELSE IF c = 0 THEN FZero
             ELSE IF c > 0 THEN FRound(x.neg, BSub(mx, my), emin, FALSE)
             ELSE FRound(y.neg, BSub(my, mx), emin, FALSE)

\* x - y
FSub(x, y) == FAdd(x, FNeg(y))

\* x * y
FMul(x, y) ==
    IF IsNonFinite(x) \/ IsNonFinite(y) THEN FNonFinite
    ELSE IF x.m = <<>> \/ y.m = <<>> THEN FZero
    ELSE FRound(x.neg # y.neg, BMul(x.m, y.m), x.e + y.e, FALSE)

\* x / y; a division by zero yields +Inf, -Inf or NaN
FDiv(x, y) ==
    IF IsNonFinite(x) \/ IsNonFinite(y) \/ y.m = <<>> THEN FNonFinite
    ELSE IF x.m = <<>> THEN FZero
    ELSE LET d == BDivMod(BShl(x.m, 55), y.m)
         IN  FRound(x.neg # y.neg, d.q, x.e - y.e - 55, d.r # <<>>)

\* x > 0
FPositive(x) == x.m # <<>> /\ ~x.neg

\* int(x): Go's float64-to-int conversion discards the fraction (truncation
\* toward zero).  The bounded rate domain keeps |x| below 2^30.
FTruncToInt(x) ==
    IF x.m = <<>> THEN 0
    ELSE LET mag == IF x.e >= 0 THEN BToInt(BShl(x.m, x.e))
                    ELSE BToInt(BShr(x.m, 0 - x.e))
         IN  IF x.neg THEN 0 - mag ELSE mag

\* The float64 a decimal literal with two fraction digits denotes
\* (strconv.ParseFloat rounds correctly, as one division of two exactly
\* representable integers does): Dec(4582) is the float64 45.82.
Dec(cents) == FDiv(FFromInt(cents), FFromInt(100))

(***************************************************************************)
(* Bounds and input domains.                                               *)
(***************************************************************************)
\* The clock takes the readings 1 .. MaxTime.
MaxTime == 2

\* Readings the BCV Fetcher can return, in hundredths: 5.00.
BcvCents == {500}

\* Readings the Binance Fetcher can return, in hundredths: 5.00 and 28.00.
BinanceCents == {500, 2800}

FetcherRates == [bcv     |-> {Dec(c) : c \in BcvCents},
                 binance |-> {Dec(c) : c \in BinanceCents}]

Rates == FetcherRates["bcv"] \cup FetcherRates["binance"]

\* Values the store is read with where the breach itself is examined:
\* unset, 0.50, 5.00, 28.00, 45.82, 46.31, and -5.00, a value SetBCV and
\* SetBinance store like any other.
BreachCents == {0, 50, 500, 2800, 4582, 4631, -500}

StoreValues == Rates \cup {Dec(c) : c \in BreachCents}

\* FetchError values the Fetchers can return.
Errors == {"unreachable", "malformed"}

\* Goroutines: main, the two scheduler jobs, and the HTTP request handlers.
Jobs == {"binanceJob", "bcvDailyJob"}

Procs == {"main"} \cup Jobs

Readers == {"r1", "r2"}

Sources == {"bcv", "binance"}

VARIABLES
    pc,        \* control location of every goroutine
    rpc,       \* location inside Service.FetchBCV / FetchBinance, per caller
    rsrc,      \* the source the caller's current Fetch call is for
    rate,      \* local `rate` of the caller's Fetch call
    ret,       \* the error FetchBCV / FetchBinance returned to the caller
    store,     \* RateStore fields bcv, binance, bcvTime, binTime
    mu,        \* RateStore.mu: the writer holding or awaiting it, the readers
    stop,      \* Scheduler.stop is closed
    wg,        \* Scheduler.wg counter
    now,       \* the clock read by time.Now()
    ticker,    \* binanceJob's ticker: "off", "pending", "due"
    tickerC,   \* a tick is buffered in ticker.C
    timer,     \* bcvDailyJob's time.After timer: "none", "pending", "due"
    timerC,    \* the timer's channel holds its value
    rd,        \* the RateData a request handler is about to return
    ferr,      \* history: the error the Fetcher handed to the caller's call
    pre,       \* history: the source's (value, time) when the call began
    lastOk,    \* history: per source, the last reading a Fetcher returned
    committed, \* history: per source, the (value, time) of the last whole Set
    jobFetches,\* history: the job has called FetchBCV / FetchBinance
    initRets,  \* history: Fetch calls of Initialize that have returned
    atStop,    \* history: the store when Stop returned
    elapsed,   \* history: time has passed while a job goroutine was live
    cal        \* the wall clock and bcvDailyJob's calendar: see NoCalendar

vars == <<pc, rpc, rsrc, rate, ret, store, mu, stop, wg, now, ticker, tickerC,
          timer, timerC, rd, ferr, pre, lastOk, committed, jobFetches,
          initRets, atStop, elapsed, cal>>

callVars == <<rpc, rsrc, rate, ret, ferr, pre>>

storeVars == <<store, mu, lastOk, committed>>

schedVars == <<stop, wg, ticker, tickerC, timer, timerC>>

timeVars == <<now, elapsed, cal>>

countVars == <<jobFetches, initRets, atStop>>

(***************************************************************************)
(* The wall clock and the calendar of bcvDailyJob.  Instants are counted   *)
(* in half hours from a Monday 00:00 in the VET zone (UTC-4).              *)
(***************************************************************************)
\* no instant: nextRun before the first call of nextBCVRunTime, and so on
NoInstant == 0 - 1

\* clock:   the instant time.Now() returns
\* zone:    the offset of the process's local zone from VET, in half hours
\* nextRun: the result of the job's last call of nextBCVRunTime
\* asOf:    history: the `now` that call read
\* wake:    history: the instant of the job's last wake
\* target:  history: the nextRun that wake was for
\* last:    history: what the last wake did, "fetch" or "skip"
\* dup:     history: one target's day has led to two FetchBCV calls
NoCalendar ==
    [clock |-> 0, zone |-> 0, nextRun |-> NoInstant, asOf |-> NoInstant,
     wake |-> NoInstant, target |-> NoInstant, last |-> "none", dup |-> FALSE]

(***************************************************************************)
(* RateStore (internal/rates/model.go).                                    *)
(***************************************************************************)
NewRateStore ==
    [bcv |-> FZero, binance |-> FZero, bcvTime |-> 0, binTime |-> 0]

\* a mutation: both Set calls stamp the BCV timestamp
TimeField_Shared(src) == "bcvTime"

ValField(src) == IF src = "bcv" THEN "bcv" ELSE "binance"

TimeField(src) == IF src = "bcv" THEN "bcvTime" ELSE "binTime"

NoRateData == [BCV |-> FZero, Binance |-> FZero, Breach |-> FZero,
               UpdatedAt |-> 0, bcvTime |-> 0, binTime |-> 0]

\* sync.RWMutex: Lock first excludes other writers and announces itself,
\* then waits for the active readers to leave; RLock waits while a writer
\* holds or awaits the lock.
LockFree == mu.writer = "none"

\* a mutation: the writer does not wait for the readers inside
ReadersGone_NoWait == TRUE

ReadersGone == mu.readers = {}

\* a mutation: readers enter whatever a writer is doing
RLockFree_NoWait == TRUE

RLockFree == mu.writer = "none"

\* a mutation: the guard on s.bcv is missing
RawBreach_NoGuard(bcv, binance) ==
    FMul(FDiv(FSub(binance, bcv), bcv), FFromInt(100))

\* var breach float64
\* if s.bcv > 0 { breach = ((s.binance - s.bcv) / s.bcv) * 100 }
RawBreach(bcv, binance) ==
    IF FPositive(bcv)
    THEN FMul(FDiv(FSub(binance, bcv), bcv), FFromInt(100))
    ELSE FZero

\* breach = float64(int(breach*100)) / 100.  Go leaves int(x) of a non-finite
\* x to the implementation; the result is carried as non-finite.
Truncate2(breach) ==
    IF IsNonFinite(breach) THEN FNonFinite
    ELSE FDiv(FFromInt(FTruncToInt(FMul(breach, FFromInt(100)))), FFromInt(100))

\* a mutation: the Binance timestamp is never looked at
UpdatedAt_BcvOnly(bcvTime, binTime) == bcvTime

\* updatedAt := s.bcvTime; if s.binTime.After(s.bcvTime) { updatedAt = s.binTime }
UpdatedAt(bcvTime, binTime) == IF binTime > bcvTime THEN binTime ELSE bcvTime

\* the breach GetRateData computes from s.bcv and s.binance
Breach(bcv, binance) == Truncate2(RawBreach(bcv, binance))

\* Breach tabulated over the values the store can hold
BreachTable == [a \in StoreValues |-> [b \in StoreValues |-> Breach(a, b)]]

\* the body of GetRateData on the store st; bcvTime and binTime are the two
\* timestamps it read
GetRateData(st) ==
    [BCV       |-> st.bcv,
     Binance   |-> st.binance,
     Breach    |-> BreachTable[st.bcv][st.binance],
     UpdatedAt |-> UpdatedAt(st.bcvTime, st.binTime),
     bcvTime   |-> st.bcvTime,
     binTime   |-> st.binTime]

(***************************************************************************)
(* The initial state: main has built the scrapers, the service with its    *)
(* empty store and the scheduler, and is about to call Start.              *)
(***************************************************************************)
\* a mutation: Initialize fetches BCV first
StartOrder_BcvFirst == <<"init_bcv", "init_binance", "go_binance", "go_bcv">>

\* a mutation: the jobs are launched before Initialize runs
StartOrder_JobsFirst == <<"go_binance", "go_bcv", "init_binance", "init_bcv">>

\* The steps of Scheduler.Start in program order: Service.Initialize's two
\* fetches, then the two `wg.Add(1); go ...` statements.
StartOrder == <<"init_binance", "init_bcv", "go_binance", "go_bcv">>

StartIndex(loc) == CHOOSE i \in 1..Len(StartOrder) : StartOrder[i] = loc

\* where main stands after the Start step loc; "serving" once Start returned
AfterStartStep(loc) ==
    IF StartIndex(loc) = Len(StartOrder) THEN "serving"
    ELSE StartOrder[StartIndex(loc) + 1]

Init ==
    /\ pc = [p \in Procs \cup Readers |->
                IF p = "main" THEN StartOrder[1]
                ELSE IF p \in Jobs THEN "notstarted" ELSE "idle"]
    /\ rpc = [p \in Procs |-> "none"]
    /\ rsrc = [p \in Procs |-> "binance"]
    /\ rate = [p \in Procs |-> FZero]
    /\ ret = [p \in Procs |-> "none"]
    /\ store = NewRateStore
    /\ mu = [writer |-> "none", readers |-> {}]
    /\ stop = FALSE
    /\ wg = 0
    /\ now = 1
    /\ ticker = "off"
    /\ tickerC = FALSE
    /\ timer = "none"
    /\ timerC = FALSE
    /\ rd = [r \in Readers |-> NoRateData]
    /\ ferr = [p \in Procs |-> "none"]
    /\ pre = [p \in Procs |-> <<FZero, 0>>]
    /\ lastOk = [src \in Sources |-> [ok |-> FALSE, v |-> FZero]]
    /\ committed = [src \in Sources |-> <<FZero, 0>>]
    /\ jobFetches = [j \in Jobs |-> FALSE]
    /\ initRets = 0
    /\ atStop = NewRateStore
    /\ elapsed = FALSE
    /\ cal = NoCalendar

(***************************************************************************)
(* Service.FetchBCV / Service.FetchBinance (internal/rates/service.go).    *)
(***************************************************************************)
\* a mutation: the calendar job refreshes Binance as well
CallSite_BothBinance(p, src) ==
    \/ p = "main" /\ pc[p] = "init_binance" /\ src = "binance"
    \/ p = "main" /\ pc[p] = "init_bcv" /\ src = "bcv"
    \/ p \in Jobs /\ pc[p] = "fetch" /\ src = "binance"

\* the call sites: Initialize (main), binanceJob, bcvDailyJob
CallSite(p, src) ==
    \/ p = "main" /\ pc[p] = "init_binance" /\ src = "binance"
    \/ p = "main" /\ pc[p] = "init_bcv" /\ src = "bcv"
    \/ p = "binanceJob" /\ pc[p] = "fetch" /\ src = "binance"
    \/ p = "bcvDailyJob" /\ pc[p] = "fetch" /\ src = "bcv"

\* a caller that gives up its loop when the call returned an error
AfterCall_ExitOnError(p) ==
    IF p = "main" THEN AfterStartStep(pc[p])
    ELSE IF ret[p] \in Errors THEN "stopcase"
    ELSE IF p = "binanceJob" THEN "select"
    ELSE "next"

\* where the caller continues after the call
AfterCall(p) ==
    IF p = "main" THEN AfterStartStep(pc[p])
    ELSE IF p = "binanceJob" THEN "select"
    ELSE "next"

\* rate, err := s.bcvScraper.Fetch(): the Fetcher is invoked
FetchCall(p, src) ==
    /\ CallSite(p, src)
    /\ rpc[p] = "none"
    /\ rpc' = [rpc EXCEPT ![p] = "fetching"]
    /\ rsrc' = [rsrc EXCEPT ![p] = src]
    /\ pre' = [pre EXCEPT ![p] = <<store[ValField(src)], store[TimeField(src)]>>]
    /\ jobFetches' = IF p \in Jobs THEN [jobFetches EXCEPT ![p] = TRUE]
                     ELSE jobFetches
    /\ UNCHANGED <<pc, rate, ret, ferr, rd, initRets, atStop>>
    /\ UNCHANGED <<storeVars, schedVars, timeVars>>

\* the Fetcher fails with error e
FetcherFails(p, e) ==
    /\ rpc[p] = "fetching"
    /\ rpc' = [rpc EXCEPT ![p] = "failed"]
    /\ ferr' = [ferr EXCEPT ![p] = e]
    /\ UNCHANGED <<pc, rsrc, rate, ret, pre, rd>>
    /\ UNCHANGED <<storeVars, schedVars, timeVars, countVars>>

\* the Fetcher returns the reading r
FetcherSucceeds(p, r) ==
    /\ rpc[p] = "fetching"
    /\ r \in FetcherRates[rsrc[p]]
    /\ rpc' = [rpc EXCEPT ![p] = "lock"]
    /\ rate' = [rate EXCEPT ![p] = r]
    /\ ferr' = [ferr EXCEPT ![p] = "nil"]
    /\ lastOk' = [lastOk EXCEPT ![rsrc[p]] = [ok |-> TRUE, v |-> r]]
    /\ UNCHANGED <<pc, rsrc, ret, pre, rd, store, mu, committed>>
    /\ UNCHANGED <<schedVars, timeVars, countVars>>

\* a mutation: the error branch falls through to the Set call, rate = 0
FetchFailed_FallsThrough(p) ==
    /\ rpc[p] = "failed"
    /\ rpc' = [rpc EXCEPT ![p] = "lock"]
    /\ rate' = [rate EXCEPT ![p] = FZero]
    /\ UNCHANGED <<pc, rsrc, ret, ferr, pre, rd>>
    /\ UNCHANGED <<storeVars, schedVars, timeVars, countVars>>

\* a mutation: the error is replaced by a fixed one on the way out
FetchFailed_OtherError(p) ==
    /\ rpc[p] = "failed"
    /\ rpc' = [rpc EXCEPT ![p] = "returned"]
    /\ ret' = [ret EXCEPT ![p] = "unreachable"]
    /\ UNCHANGED <<pc, rsrc, rate, ferr, pre, rd>>
    /\ UNCHANGED <<storeVars, schedVars, timeVars, countVars>>

\* if err != nil { log.Printf(...); return err }
FetchFailed(p) ==
    /\ rpc[p] = "failed"
    /\ rpc' = [rpc EXCEPT ![p] = "returned"]
    /\ ret' = [ret EXCEPT ![p] = ferr[p]]
    /\ UNCHANGED <<pc, rsrc, rate, ferr, pre, rd>>
    /\ UNCHANGED <<storeVars, schedVars, timeVars, countVars>>

\* s.store.SetBCV(rate): s.mu.Lock() takes the writer slot ...
SetLock(p) ==
    /\ rpc[p] = "lock"
    /\ LockFree
    /\ mu' = [mu EXCEPT !.writer = p]
    /\ rpc' = [rpc EXCEPT ![p] = "lock_wait"]
    /\ UNCHANGED <<pc, rsrc, rate, ret, ferr, pre, rd, store, lastOk, committed>>
    /\ UNCHANGED <<schedVars, timeVars, countVars>>

\* ... and returns once the active readers have left
SetLocked(p) ==
    /\ rpc[p] = "lock_wait"
    /\ ReadersGone
    /\ rpc' = [rpc EXCEPT ![p] = "set_val"]
    /\ UNCHANGED <<pc, rsrc, rate, ret, ferr, pre, rd>>
    /\ UNCHANGED <<storeVars, schedVars, timeVars, countVars>>

\* s.bcv = rate
SetValue(p) ==
    /\ rpc[p] = "set_val"
    /\ store' = [store EXCEPT ![ValField(rsrc[p])] = rate[p]]
    /\ rpc' = [rpc EXCEPT ![p] = "set_time"]
    /\ UNCHANGED <<pc, rsrc, rate, ret, ferr, pre, rd, mu, lastOk, committed>>
    /\ UNCHANGED <<schedVars, timeVars, countVars>>

\* s.bcvTime = time.Now()
SetTime(p) ==
    /\ rpc[p] = "set_time"
    /\ store' = [store EXCEPT ![TimeField(rsrc[p])] = now]
    /\ committed' = [committed EXCEPT ![rsrc[p]] = <<rate[p], now>>]
    /\ rpc' = [rpc EXCEPT ![p] = "unlock"]
    /\ UNCHANGED <<pc, rsrc, rate, ret, ferr, pre, rd, mu, lastOk>>
    /\ UNCHANGED <<schedVars, timeVars, countVars>>

\* the deferred s.mu.Unlock(), then `return nil`
SetUnlock(p) ==
    /\ rpc[p] = "unlock"
    /\ mu' = [mu EXCEPT !.writer = "none"]
    /\ rpc' = [rpc EXCEPT ![p] = "returned"]
    /\ ret' = [ret EXCEPT ![p] = "nil"]
    /\ UNCHANGED <<pc, rsrc, rate, ferr, pre, rd, store, lastOk, committed>>
    /\ UNCHANGED <<schedVars, timeVars, countVars>>

\* the caller's `if err := s.FetchBCV(); err != nil { log.Printf(...) }`: the
\* error is logged and dropped
ErrorLogged(p) ==
    /\ rpc[p] = "returned"
    /\ rpc' = [rpc EXCEPT ![p] = "none"]
    /\ ret' = [ret EXCEPT ![p] = "none"]
    /\ ferr' = [ferr EXCEPT ![p] = "none"]
    /\ rate' = [rate EXCEPT ![p] = FZero]
    /\ pre' = [pre EXCEPT ![p] = <<FZero, 0>>]
    /\ pc' = [pc EXCEPT ![p] = AfterCall(p)]
    /\ initRets' = IF p = "main" THEN initRets + 1 ELSE initRets
    /\ UNCHANGED <<rsrc, rd, jobFetches, atStop>>
    /\ UNCHANGED <<storeVars, schedVars, timeVars>>

(***************************************************************************)
(* Scheduler (internal/scheduler/scheduler.go) and main.                   *)
(***************************************************************************)
\* wg.Add(1); go s.binanceJob()  /  wg.Add(1); go s.bcvDailyJob()
GoJob(j) ==
    /\ pc["main"] = (IF j = "binanceJob" THEN "go_binance" ELSE "go_bcv")
    /\ pc[j] = "notstarted"
    /\ wg' = wg + 1
    /\ pc' = [pc EXCEPT ![j] = "start", !["main"] = AfterStartStep(pc["main"])]
    /\ UNCHANGED <<stop, ticker, tickerC, timer, timerC, rd>>
    /\ UNCHANGED <<callVars, storeVars, timeVars, countVars>>

\* Stop: close(s.stop).  A job parked in its select is woken on the stop case.
StopClose ==
    /\ pc["main"] = "serving"
    /\ stop' = TRUE
    /\ pc' = [p \in DOMAIN pc |->
                IF p = "main" THEN "wg_wait"
                ELSE IF p \in Jobs /\ pc[p] = "parked" THEN "stopcase"
                ELSE pc[p]]
    /\ UNCHANGED <<wg, ticker, tickerC, timer, timerC, rd>>
    /\ UNCHANGED <<callVars, storeVars, timeVars, countVars>>

\* a mutation: Stop returns without joining the jobs
WaitDone_NoJoin == TRUE

\* s.wg.Wait() returns when the counter is zero
WaitDone == wg = 0

\* Stop: s.wg.Wait() returns, Stop returns
StopWait ==
    /\ pc["main"] = "wg_wait"
    /\ WaitDone
    /\ pc' = [pc EXCEPT !["main"] = "stopped"]
    /\ atStop' = store
    /\ UNCHANGED <<rd, jobFetches, initRets>>
    /\ UNCHANGED <<callVars, storeVars, schedVars, timeVars>>

\* server.Shutdown: no further request is accepted
Shutdown ==
    /\ pc["main"] = "stopped"
    /\ pc' = [pc EXCEPT !["main"] = "exit"]
    /\ UNCHANGED rd
    /\ UNCHANGED <<callVars, storeVars, schedVars, timeVars, countVars>>

\* binanceJob: ticker := time.NewTicker(5 * time.Minute)
BinanceStart ==
    /\ pc["binanceJob"] = "start"
    /\ ticker' = "pending"
    /\ pc' = [pc EXCEPT !["binanceJob"] = "select"]
    /\ UNCHANGED <<stop, wg, tickerC, timer, timerC, rd>>
    /\ UNCHANGED <<callVars, storeVars, timeVars, countVars>>

\* bcvDailyJob: the log line before the loop
BcvStart ==
    /\ pc["bcvDailyJob"] = "start"
    /\ pc' = [pc EXCEPT !["bcvDailyJob"] = "next"]
    /\ UNCHANGED rd
    /\ UNCHANGED <<callVars, storeVars, schedVars, timeVars, countVars>>

\* nextRun := s.nextBCVRunTime(); waitDuration := time.Until(nextRun);
\* time.After(waitDuration).  nextBCVRunTime keeps today's 11:30 unless
\* now.After(next), so nextRun can be the present instant and the wait zero
\* or negative: the timer is then due at once.
BcvNext(due) ==
    /\ pc["bcvDailyJob"] = "next"
    /\ timer' = IF due THEN "due" ELSE "pending"
    /\ timerC' = FALSE
    /\ pc' = [pc EXCEPT !["bcvDailyJob"] = "select"]
    /\ UNCHANGED <<stop, wg, ticker, tickerC, rd>>
    /\ UNCHANGED <<callVars, storeVars, timeVars, countVars>>

\* the channel a job's select receives from besides s.stop
TimerReady(j) == IF j = "binanceJob" THEN tickerC ELSE timerC

\* the case body entered on the timer case
TimerCase(j) == IF j = "binanceJob" THEN "fetch" ELSE "weekday"

\* select, case <-s.stop: ready whenever the channel is closed
SelectStop(j) ==
    /\ pc[j] = "select"
    /\ stop
    /\ pc' = [pc EXCEPT ![j] = "stopcase"]
    /\ UNCHANGED rd
    /\ UNCHANGED <<callVars, storeVars, schedVars, timeVars, countVars>>

\* select, case <-ticker.C / case <-time.After(waitDuration): ready when the
\* channel holds a value.  Go's select picks among its ready cases at random,
\* so a closed s.stop does not disable this case.
SelectTimer(j) ==
    /\ pc[j] = "select"
    /\ TimerReady(j)
    /\ tickerC' = IF j = "binanceJob" THEN FALSE ELSE tickerC
    /\ timerC' = IF j = "bcvDailyJob" THEN FALSE ELSE timerC
    /\ pc' = [pc EXCEPT ![j] = TimerCase(j)]
    /\ UNCHANGED <<stop, wg, ticker, timer, rd>>
    /\ UNCHANGED <<callVars, storeVars, timeVars, countVars>>

\* select with no case ready: the goroutine parks on both channels
SelectPark(j) ==
    /\ pc[j] = "select"
    /\ ~stop
    /\ ~TimerReady(j)
    /\ pc' = [pc EXCEPT ![j] = "parked"]
    /\ UNCHANGED rd
    /\ UNCHANGED <<callVars, storeVars, schedVars, timeVars, countVars>>

\* return on the stop case: the deferred ticker.Stop() and s.wg.Done()
JobReturn(j) ==
    /\ pc[j] = "stopcase"
    /\ wg' = wg - 1
    /\ ticker' = IF j = "binanceJob" THEN "off" ELSE ticker
    /\ pc' = [pc EXCEPT ![j] = "exited"]
    /\ UNCHANGED <<stop, tickerC, timer, timerC, rd>>
    /\ UNCHANGED <<callVars, storeVars, timeVars, countVars>>

\* if s.isWeekday(): the weekday of time.Now() on the wall clock
BcvWeekday(weekday) ==
    /\ pc["bcvDailyJob"] = "weekday"
    /\ pc' = [pc EXCEPT !["bcvDailyJob"] = IF weekday THEN "fetch" ELSE "next"]
    /\ UNCHANGED rd
    /\ UNCHANGED <<callVars, storeVars, schedVars, timeVars, countVars>>

(***************************************************************************)
(* Time: the clock and the runtime's timers.                               *)
(***************************************************************************)
Later(t) == IF t = "pending" THEN {"pending", "due"} ELSE {t}

\* time passes; a pending timer may reach its deadline
Tick ==
    /\ now < MaxTime
    /\ now' = now + 1
    /\ elapsed' = (elapsed \/ wg > 0)
    /\ UNCHANGED cal
    /\ ticker' \in Later(ticker)
    /\ timer' \in Later(timer)
    /\ UNCHANGED <<pc, stop, wg, tickerC, timerC, rd>>
    /\ UNCHANGED <<callVars, storeVars, countVars>>

\* the ticker sends on ticker.C (capacity 1, a tick is dropped when full); a
\* receiver parked in select takes the value directly
TickerFire ==
    /\ ticker = "due"
    /\ ticker' = "pending"
    /\ IF pc["binanceJob"] = "parked"
       THEN /\ pc' = [pc EXCEPT !["binanceJob"] = TimerCase("binanceJob")]
            /\ UNCHANGED tickerC
       ELSE /\ tickerC' = TRUE
            /\ UNCHANGED pc
    /\ UNCHANGED <<stop, wg, timer, timerC, rd>>
    /\ UNCHANGED <<callVars, storeVars, timeVars, countVars>>

\* the time.After timer sends its value
TimerFire ==
    /\ timer = "due"
    /\ timer' = "none"
    /\ IF pc["bcvDailyJob"] = "parked"
       THEN /\ pc' = [pc EXCEPT !["bcvDailyJob"] = TimerCase("bcvDailyJob")]
            /\ UNCHANGED timerC
       ELSE /\ timerC' = TRUE
            /\ UNCHANGED pc
    /\ UNCHANGED <<stop, wg, ticker, tickerC, rd>>
    /\ UNCHANGED <<callVars, storeVars, timeVars, countVars>>

(***************************************************************************)
(* Request handlers: Service.GetRates -> RateStore.GetRateData.            *)
(***************************************************************************)
\* the HTTP server runs from Start's return until server.Shutdown
Serving == pc["main"] \in {"serving", "wg_wait", "stopped"}

\* s.mu.RLock()
RLock(r) ==
    /\ pc[r] = "idle"
    /\ Serving
    /\ RLockFree
    /\ mu' = [mu EXCEPT !.readers = @ \cup {r}]
    /\ pc' = [pc EXCEPT ![r] = "rlocked"]
    /\ UNCHANGED <<store, lastOk, committed, rd>>
    /\ UNCHANGED <<callVars, schedVars, timeVars, countVars>>

\* the body of GetRateData, up to the return statement
ReadRateData(r) ==
    /\ pc[r] = "rlocked"
    /\ rd' = [rd EXCEPT ![r] = GetRateData(store)]
    /\ pc' = [pc EXCEPT ![r] = "return"]
    /\ UNCHANGED <<callVars, storeVars, schedVars, timeVars, countVars>>

\* the deferred s.mu.RUnlock(); the response is written and forgotten
RUnlock(r) ==
    /\ pc[r] = "return"
    /\ mu' = [mu EXCEPT !.readers = @ \ {r}]
    /\ rd' = [rd EXCEPT ![r] = NoRateData]
    /\ pc' = [pc EXCEPT ![r] = "idle"]
    /\ UNCHANGED <<store, lastOk, committed>>
    /\ UNCHANGED <<callVars, schedVars, timeVars, countVars>>

(***************************************************************************)
(* The program.                                                            *)
(***************************************************************************)
Next ==
    \/ \E p \in Procs, src \in Sources : FetchCall(p, src)
    \/ \E p \in Procs, e \in Errors : FetcherFails(p, e)
    \/ \E p \in Procs, r \in Rates : FetcherSucceeds(p, r)
    \/ \E p \in Procs : FetchFailed(p)
    \/ \E p \in Procs : SetLock(p)
    \/ \E p \in Procs : SetLocked(p)
    \/ \E p \in Procs : SetValue(p)
    \/ \E p \in Procs : SetTime(p)
    \/ \E p \in Procs : SetUnlock(p)
    \/ \E p \in Procs : ErrorLogged(p)
    \/ \E j \in Jobs : GoJob(j)
    \/ StopClose
    \/ StopWait
    \/ Shutdown
    \/ BinanceStart
    \/ BcvStart
    \/ \E due \in BOOLEAN : BcvNext(due)
    \/ \E j \in Jobs : SelectStop(j)
    \/ \E j \in Jobs : SelectTimer(j)
    \/ \E j \in Jobs : SelectPark(j)
    \/ \E j \in Jobs : JobReturn(j)
    \/ \E weekday \in BOOLEAN : BcvWeekday(weekday)
    \/ Tick
    \/ TickerFire
    \/ TimerFire
    \/ \E r \in Readers : RLock(r)
    \/ \E r \in Readers : ReadRateData(r)
    \/ \E r \in Readers : RUnlock(r)

Spec == Init /\ [][Next]_vars

(***************************************************************************)
(* The program with its scheduling: every goroutine that can take a step   *)
(* eventually does, every Fetcher call returns, sync.RWMutex hands the     *)
(* lock to a waiting writer, and a select that keeps finding s.stop closed *)
(* eventually picks that case (it picks at random among the ready cases).  *)
(* Nothing obliges main to call Stop, a request to arrive, or time to pass.*)
(***************************************************************************)
\* the Fetcher called by p returns, with an error or with a reading
FetcherReturns(p) ==
    \/ \E e \in Errors : FetcherFails(p, e)
    \/ \E r \in Rates : FetcherSucceeds(p, r)

\* a step of p inside FetchBCV / FetchBinance other than taking the lock
ServiceStep(p) ==
    \/ \E src \in Sources : FetchCall(p, src)
    \/ FetchFailed(p)
    \/ SetLocked(p)
    \/ SetValue(p)
    \/ SetTime(p)
    \/ SetUnlock(p)
    \/ ErrorLogged(p)

\* a step of the job j outside its Fetch call; of its select, the cases that
\* do not depend on the random choice between two ready channels
JobStep(j) ==
    \/ j = "binanceJob" /\ BinanceStart
    \/ j = "bcvDailyJob" /\ BcvStart
    \/ j = "bcvDailyJob" /\ \E due \in BOOLEAN : BcvNext(due)
    \/ j = "bcvDailyJob" /\ \E weekday \in BOOLEAN : BcvWeekday(weekday)
    \/ SelectTimer(j)
    \/ SelectPark(j)
    \/ JobReturn(j)

\* a step of the request handler r inside GetRateData
HandlerStep(r) == ReadRateData(r) \/ RUnlock(r)

\* a step of the goroutine p other than taking the lock or leaving a select
GoroutineStep(p) ==
    \/ FetcherReturns(p)
    \/ ServiceStep(p)
    \/ p \in Jobs /\ JobStep(p)
    \/ p = "main" /\ StopWait

Fairness ==
    /\ \A p \in Procs : WF_vars(GoroutineStep(p))
    /\ \A p \in Procs : SF_vars(SetLock(p))
    /\ \A j \in Jobs : SF_vars(SelectStop(j))
    /\ \A r \in Readers : WF_vars(HandlerStep(r))

\* the program as Start leaves it when both fetches of Initialize failed:
\* both jobs launched, main serving until the shutdown signal
InitRunning ==
    /\ pc = [p \in Procs \cup Readers |->
                IF p = "main" THEN "serving"
                ELSE IF p \in Jobs THEN "start" ELSE "idle"]
    /\ rpc = [p \in Procs |-> "none"]
    /\ rsrc = [p \in Procs |-> IF p = "bcvDailyJob" THEN "bcv" ELSE "binance"]
    /\ rate = [p \in Procs |-> FZero]
    /\ ret = [p \in Procs |-> "none"]
    /\ store = NewRateStore
    /\ mu = [writer |-> "none", readers |-> {}]
    /\ stop = FALSE
    /\ wg = 2
    /\ now = 1
    /\ ticker = "off"
    /\ tickerC = FALSE
    /\ timer = "none"
    /\ timerC = FALSE
    /\ rd = [r \in Readers |-> NoRateData]
    /\ ferr = [p \in Procs |-> "none"]
    /\ pre = [p \in Procs |-> <<FZero, 0>>]
    /\ lastOk = [src \in Sources |-> [ok |-> FALSE, v |-> FZero]]
    /\ committed = [src \in Sources |-> <<FZero, 0>>]
    /\ jobFetches = [j \in Jobs |-> FALSE]
    /\ initRets = 2
    /\ atStop = NewRateStore
    /\ elapsed = FALSE
    /\ cal = NoCalendar

\* the steps of the running program, one request being served at a time
NextRunning ==
    \/ \E j \in Jobs, src \in Sources : FetchCall(j, src)
    \/ \E j \in Jobs, e \in Errors : FetcherFails(j, e)
    \/ \E j \in Jobs, r \in Rates : FetcherSucceeds(j, r)
    \/ \E j \in Jobs : FetchFailed(j)
    \/ \E j \in Jobs : SetLock(j)
    \/ \E j \in Jobs : SetLocked(j)
    \/ \E j \in Jobs : SetValue(j)
    \/ \E j \in Jobs : SetTime(j)
    \/ \E j \in Jobs : SetUnlock(j)
    \/ \E j \in Jobs : ErrorLogged(j)
    \/ StopClose
    \/ StopWait
    \/ Shutdown
    \/ BinanceStart
    \/ BcvStart
    \/ \E due \in BOOLEAN : BcvNext(due)
    \/ \E j \in Jobs : SelectStop(j)
    \/ \E j \in Jobs : SelectTimer(j)
    \/ \E j \in Jobs : SelectPark(j)
    \/ \E j \in Jobs : JobReturn(j)
    \/ \E weekday \in BOOLEAN : BcvWeekday(weekday)
    \/ Tick
    \/ TickerFire
    \/ TimerFire
    \/ RLock("r1")
    \/ ReadRateData("r1")
    \/ RUnlock("r1")

SpecFair == InitRunning /\ [][NextRunning]_vars /\ Fairness

(***************************************************************************)
(* The running program read by request handlers only: the store holds any  *)
(* pair of StoreValues, the jobs are parked in their selects.              *)
(***************************************************************************)
\* the timestamp a Set left behind for the value v (0: never set)
SetStamp(v) == IF v = FZero THEN 0 ELSE 1

InitBreach ==
    /\ \E a \in StoreValues, b \in StoreValues :
          /\ store = [bcv |-> a, binance |-> b,
                      bcvTime |-> SetStamp(a), binTime |-> SetStamp(b)]
          /\ lastOk = [src \in Sources |->
                          IF src = "bcv" THEN [ok |-> a # FZero, v |-> a]
                          ELSE [ok |-> b # FZero, v |-> b]]
          /\ committed = [src \in Sources |->
                             IF src = "bcv" THEN <<a, SetStamp(a)>>
                             ELSE <<b, SetStamp(b)>>]
    /\ pc = [p \in Procs \cup Readers |->
                IF p = "main" THEN "serving"
                ELSE IF p \in Jobs THEN "parked" ELSE "idle"]
    /\ rpc = [p \in Procs |-> "none"]
    /\ rsrc = [p \in Procs |-> IF p = "bcvDailyJob" THEN "bcv" ELSE "binance"]
    /\ rate = [p \in Procs |-> FZero]
    /\ ret = [p \in Procs |-> "none"]
    /\ mu = [writer |-> "none", readers |-> {}]
    /\ stop = FALSE
    /\ wg = 2
    /\ now = 1
    /\ ticker = "pending"
    /\ tickerC = FALSE
    /\ timer = "pending"
    /\ timerC = FALSE
    /\ rd = [r \in Readers |-> NoRateData]
    /\ ferr = [p \in Procs |-> "none"]
    /\ pre = [p \in Procs |-> <<FZero, 0>>]
    /\ jobFetches = [j \in Jobs |-> FALSE]
    /\ initRets = 2
    /\ atStop = NewRateStore
    /\ elapsed = FALSE
    /\ cal = NoCalendar

NextBreach ==
    \/ \E r \in Readers : RLock(r)
    \/ \E r \in Readers : ReadRateData(r)
    \/ \E r \in Readers : RUnlock(r)

SpecBreach == InitBreach /\ [][NextBreach]_vars

(***************************************************************************)
(* bcvDailyJob against the calendar (scheduler.go, nextBCVRunTime and      *)
(* isWeekday): the running program with the job about to compute its next  *)
(* run, at any instant of a week, in a process of any of ZoneShifts.       *)
(***************************************************************************)
\* half hours in a day
TicksPerDay == 24 * 2

\* targetHour := 11; targetMinute := 30
TargetTick == 11 * 2 + 1

\* The clock stops before day MaxDay.
MaxDay == 9

\* the process's local zone: VET itself, UTC+9 (13 h ahead), UTC-10 (6 h behind)
ZoneShifts == {0, 26, 0 - 12}

\* how late the job wakes after its timer is due: at once, half an hour,
\* 13.5 hours (the machine was suspended)
Lates == {0, 1, 27}

\* the day an instant of the VET clock falls on
Day(t) == t \div TicksPerDay

\* t.Weekday(), counted 0 = Monday .. 5 = Saturday, 6 = Sunday
Weekday(t) == Day(t) % 7

\* next.Weekday() == time.Saturday || next.Weekday() == time.Sunday
IsWeekend(t) == Weekday(t) \in {5, 6}

\* a mutation: the target is the start of the day
TodayTarget_Midnight(t) == Day(t) * TicksPerDay

\* time.Date(now.Year(), now.Month(), now.Day(), 11, 30, 0, 0, loc)
TodayTarget(t) == Day(t) * TicksPerDay + TargetTick

\* a mutation: the target stays on today
Tomorrow_Today(next) == next

\* a mutation: the target moves on by two days
Tomorrow_TwoDays(next) == next + 2 * TicksPerDay

\* next.Add(24 * time.Hour)
Tomorrow(next) == next + TicksPerDay

\* a mutation: Saturday and Sunday are not skipped
SkipWeekend_None(next) == next

\* for next.Weekday() == Saturday || Sunday { next = next.Add(24 * time.Hour) }
RECURSIVE SkipWeekend(_)
SkipWeekend(next) ==
    IF IsWeekend(next) THEN SkipWeekend(next + TicksPerDay) ELSE next

\* Scheduler.nextBCVRunTime with time.Now() reading t
nextBCVRunTime(t) ==
    LET next == TodayTarget(t)
    IN  SkipWeekend(IF t > next THEN Tomorrow(next) ELSE next)

\* Scheduler.isWeekday with time.Now() reading t: the weekday is taken in
\* the process's local zone
isWeekday(t, zone) == ~IsWeekend(t + zone)

InitCal ==
    /\ pc = [p \in Procs \cup Readers |->
                IF p = "main" THEN "serving"
                ELSE IF p = "bcvDailyJob" THEN "next"
                ELSE IF p = "binanceJob" THEN "parked" ELSE "idle"]
    /\ rpc = [p \in Procs |-> "none"]
    /\ rsrc = [p \in Procs |-> IF p = "bcvDailyJob" THEN "bcv" ELSE "binance"]
    /\ rate = [p \in Procs |-> FZero]
    /\ ret = [p \in Procs |-> "none"]
    /\ store = NewRateStore
    /\ mu = [writer |-> "none", readers |-> {}]
    /\ stop = FALSE
    /\ wg = 2
    /\ now = 1
    /\ ticker = "pending"
    /\ tickerC = FALSE
    /\ timer = "none"
    /\ timerC = FALSE
    /\ rd = [r \in Readers |-> NoRateData]
    /\ ferr = [p \in Procs |-> "none"]
    /\ pre = [p \in Procs |-> <<FZero, 0>>]
    /\ lastOk = [src \in Sources |-> [ok |-> FALSE, v |-> FZero]]
    /\ committed = [src \in Sources |-> <<FZero, 0>>]
    /\ jobFetches = [j \in Jobs |-> FALSE]
    /\ initRets = 2
    /\ atStop = NewRateStore
    /\ elapsed = FALSE
    /\ \E t \in 0 .. (7 * TicksPerDay - 1), z \in ZoneShifts :
          cal = [NoCalendar EXCEPT !.clock = t, !.zone = z]

\* nextRun := s.nextBCVRunTime(); waitDuration := time.Until(nextRun); the
\* job parks in its select on time.After(waitDuration)
CalNext ==
    /\ pc["bcvDailyJob"] = "next"
    /\ cal' = [cal EXCEPT !.asOf = cal.clock,
                          !.nextRun = nextBCVRunTime(cal.clock)]
    /\ pc' = [pc EXCEPT !["bcvDailyJob"] = "parked"]
    /\ UNCHANGED <<now, elapsed, rd>>
    /\ UNCHANGED <<callVars, storeVars, schedVars, countVars>>

\* case <-time.After(waitDuration): the timer fires once waitDuration has
\* passed, at once if it is zero or negative, and the job wakes then or later
CalWake(late) ==
    /\ pc["bcvDailyJob"] = "parked"
    /\ cal.nextRun # NoInstant
    /\ LET due == IF cal.clock > cal.nextRun THEN cal.clock ELSE cal.nextRun
       IN  /\ due + late < MaxDay * TicksPerDay
           /\ cal' = [cal EXCEPT !.clock = due + late]
    /\ pc' = [pc EXCEPT !["bcvDailyJob"] = "weekday"]
    /\ UNCHANGED <<now, elapsed, rd>>
    /\ UNCHANGED <<callVars, storeVars, schedVars, countVars>>

\* if s.isWeekday() { ... s.service.FetchBCV() ... } else { skip }
CalWeekday ==
    /\ pc["bcvDailyJob"] = "weekday"
    /\ cal.nextRun # NoInstant
    /\ LET fetch == isWeekday(cal.clock, cal.zone)
       IN  /\ cal' = [cal EXCEPT
                        !.wake = cal.clock,
                        !.target = cal.nextRun,
                        !.last = IF fetch THEN "fetch" ELSE "skip",
                        !.dup = @ \/ (fetch /\ cal.last = "fetch"
                                        /\ Day(cal.target) = Day(cal.nextRun))]
           /\ pc' = [pc EXCEPT !["bcvDailyJob"] =
                                  IF fetch THEN "fetch" ELSE "next"]
    /\ UNCHANGED <<now, elapsed, rd>>
    /\ UNCHANGED <<callVars, storeVars, schedVars, countVars>>

\* the BCV Fetcher takes no time to speak of, or half an hour
CalPass ==
    /\ rpc["bcvDailyJob"] = "fetching"
    /\ cal.nextRun # NoInstant
    /\ cal.clock = cal.wake
    /\ cal.clock + 1 < MaxDay * TicksPerDay
    /\ cal' = [cal EXCEPT !.clock = @ + 1]
    /\ UNCHANGED <<pc, now, elapsed, rd>>
    /\ UNCHANGED <<callVars, storeVars, schedVars, countVars>>

NextCal ==
    \/ CalNext
    \/ \E late \in Lates : CalWake(late)
    \/ CalWeekday
    \/ CalPass
    \/ \E p \in Procs, src \in Sources : FetchCall(p, src)
    \/ \E p \in Procs, e \in Errors : FetcherFails(p, e)
    \/ \E p \in Procs, r \in Rates : FetcherSucceeds(p, r)
    \/ \E p \in Procs : FetchFailed(p)
    \/ \E p \in Procs : SetLock(p)
    \/ \E p \in Procs : SetLocked(p)
    \/ \E p \in Procs : SetValue(p)
    \/ \E p \in Procs : SetTime(p)
    \/ \E p \in Procs : SetUnlock(p)
    \/ \E p \in Procs : ErrorLogged(p)

SpecCal == InitCal /\ [][NextCal]_vars

(***************************************************************************)
(* Properties.                                                             *)
(***************************************************************************)
\* the caller p's Fetch call is inside the Set call of its source
InSet(p) == rpc[p] \in {"set_val", "set_time", "unlock"}

\* the caller p's Fetch call got a reading that its Set has not stored yet
Storing(p) == rpc[p] \in {"lock", "lock_wait", "set_val", "set_time"}

\* the request handler r is inside GetRateData's critical section
InGet(r) == pc[r] \in {"rlocked", "return"}

\* the (value, timestamp) pair the store holds for a source
StorePair(src) == <<store[ValField(src)], store[TimeField(src)]>>

\* Stop has returned
Stopped == pc["main"] \in {"stopped", "exit"}

\* ---- C1 ----
\* C1, state part: from the moment a Fetcher hands an error to FetchBCV /
\* FetchBinance until the caller has dropped it, the call is on its error
\* path, the source's value and timestamp are what they were when the call
\* began, and the error returned is the Fetcher's own.
FailedRefreshState ==
    \A p \in Procs :
        ferr[p] \in Errors =>
            /\ rpc[p] \in {"failed", "returned"}
            /\ StorePair(rsrc[p]) = pre[p]
            /\ rpc[p] = "returned" => ret[p] = ferr[p]

\* C1, step part: no step of a failed call changes any of the four fields.
FailedRefreshStep ==
    \A p \in Procs :
        (ferr[p] \in Errors \/ ferr'[p] \in Errors) /\ rpc'[p] # rpc[p]
            => store' = store

\* C1: a Refresh whose Fetcher fails returns that same error and leaves both
\* values and both timestamps of the store as they were.
C1_FailedRefreshKeepsStore ==
    [](FailedRefreshState) /\ [][FailedRefreshStep]_vars

\* a failed Refresh has returned its error over a store that was already set
C1_Witness ==
    \E p \in Procs :
        /\ rpc[p] = "returned"
        /\ ret[p] = "malformed"
        /\ pre[p][2] > 0

\* ---- C2 ----
\* C2: outside a Refresh that is storing its reading, each store field holds
\* the reading the last successful fetch of its source returned, with a set
\* timestamp, or zero with the zero timestamp if the source never succeeded.
C2_FieldIsLastSuccess ==
    \A src \in Sources :
        (\A p \in Procs : ~(rsrc[p] = src /\ Storing(p))) =>
            /\ store[ValField(src)] = lastOk[src].v
            /\ lastOk[src].ok => store[TimeField(src)] > 0
            /\ ~lastOk[src].ok => StorePair(src) = <<FZero, 0>>

\* a job's Refresh failed after an earlier success of the same source, and
\* the other source has never succeeded
C2_Witness ==
    /\ rpc["binanceJob"] = "returned"
    /\ ret["binanceJob"] \in Errors
    /\ lastOk["binance"].ok
    /\ store.binance = lastOk["binance"].v
    /\ ~lastOk["bcv"].ok
    /\ store.bcv = FZero

\* ---- C3 ----
\* C3: once a job goroutine has been launched, or Start has returned, both
\* fetches of Initialize have returned and main is in no Fetch call; a job
\* in a Fetch call implies the same.
C3_InitializeBeforeJobs ==
    ((\E j \in Jobs : pc[j] # "notstarted" \/ rpc[j] # "none" \/ jobFetches[j])
        \/ pc["main"] \in {"serving", "wg_wait", "stopped", "exit"})
    => (initRets = 2 /\ rpc["main"] = "none")

\* the first job is launched while Start is still running
C3_Witness ==
    /\ pc["binanceJob"] = "start"
    /\ pc["main"] = "go_bcv"
    /\ initRets = 2

\* ---- C4 ----
\* C4: once Stop has returned the stop channel is closed, both job goroutines
\* have exited and are in no Fetch call, the mutex has no writer, and the
\* store is what it was when Stop returned.
C4_StopJoins ==
    Stopped =>
        /\ stop
        /\ wg = 0
        /\ \A j \in Jobs : pc[j] = "exited" /\ rpc[j] = "none"
        /\ mu.writer = "none"
        /\ store = atStop

\* Stop has returned after the interval job refreshed the store
C4_Witness ==
    /\ pc["main"] = "exit"
    /\ jobFetches["binanceJob"]
    /\ store.binTime > 1

\* ---- C5 ----
\* C5: a job that leaves its select while the stop channel is closed leaves
\* it on the stop case, whether or not its timer channel is ready too; a job
\* parked in its select when the channel is closed is woken on the stop case.
C5_StopWinsSelect ==
    [][\A j \in Jobs :
          /\ (pc[j] = "select" /\ stop /\ pc'[j] # "select")
                => pc'[j] = "stopcase"
          /\ (pc[j] = "parked" /\ ~stop /\ stop') => pc'[j] = "stopcase"]_vars

\* ---- C6 ----
\* C6: when Stop returns with no time having passed since the jobs were
\* launched, neither job has called FetchBCV / FetchBinance.
C6_NoRefreshBeforeStop ==
    (Stopped /\ ~elapsed) => \A j \in Jobs : ~jobFetches[j]

\* ---- C7 ----
\* C7: the RateData a handler returns carries, for each source, the value
\* and the timestamp of one and the same completed Set (or the zero pair),
\* and is the store as it stands at the return.
C7_SnapshotConsistent ==
    \A r \in Readers :
        pc[r] = "return" =>
            /\ <<rd[r].BCV, rd[r].bcvTime>> = committed["bcv"]
            /\ <<rd[r].Binance, rd[r].binTime>> = committed["binance"]
            /\ <<rd[r].BCV, rd[r].bcvTime>> = StorePair("bcv")
            /\ <<rd[r].Binance, rd[r].binTime>> = StorePair("binance")

\* a handler returns a set snapshot while a writer waits for it to leave
C7_Witness ==
    \E r \in Readers, p \in Procs :
        /\ pc[r] = "return"
        /\ rd[r].binTime > 0
        /\ rpc[p] = "lock_wait"
        /\ rsrc[p] = "binance"
        /\ rate[p] # rd[r].Binance

\* ---- C8 ----
\* C8: at most one caller is inside a Set, no handler is inside GetRateData
\* while a caller is inside a Set, and a handler may enter GetRateData
\* whenever no writer holds or awaits the mutex, other handlers being inside
\* or not.
C8_ReadersWriter ==
    /\ Cardinality({p \in Procs : InSet(p)}) <= 1
    /\ (\E p \in Procs : InSet(p)) => \A r \in Readers : ~InGet(r)
    /\ \A r \in Readers :
          (pc[r] = "idle" /\ Serving /\ mu.writer = "none") => ENABLED RLock(r)

\* both handlers are inside GetRateData at once
C8_Witness ==
    /\ \A r \in Readers : InGet(r)
    /\ store.binTime > 0

\* ---- C9 ----
\* floor of |((b - a) / a) * 100 * 100| with the sign of b - a, computed
\* exactly on the values the two float64 a and b stand for
ExactBreachCents(a, b) ==
    LET emin == IF a.e < b.e THEN a.e ELSE b.e
        A == BShl(a.m, a.e - emin)
        B == BShl(b.m, b.e - emin)
        neg == BCmp(B, A) < 0
        D == IF neg THEN BSub(A, B) ELSE BSub(B, A)
        q == BToInt(BDivMod(BMulSmall(D, 10000), A).q)
    IN  IF neg THEN 0 - q ELSE q

\* ((b - a) / a) * 100 truncated to two decimals, as the nearest float64
ExactBreachTable ==
    [a \in StoreValues |-> [b \in StoreValues |->
        IF FPositive(a) /\ FPositive(b) THEN Dec(ExactBreachCents(a, b))
        ELSE FZero]]

\* C9: for every positive stored pair the breach a handler returns is
\* ((b - a) / a) * 100 truncated to two decimals.
C9_BreachIsTruncation ==
    \A r \in Readers :
        (pc[r] = "return" /\ FPositive(rd[r].BCV) /\ FPositive(rd[r].Binance))
            => rd[r].Breach = ExactBreachTable[rd[r].BCV][rd[r].Binance]

\* ---- C11 ----
\* ((b - a) / a) * 100 in float64, truncated as GetRateData truncates, with
\* no guard on a
FormulaTable ==
    [a \in StoreValues |-> [b \in StoreValues |->
        Truncate2(FMul(FDiv(FSub(b, a), a), FFromInt(100)))]]

\* C11: for every stored BCV value other than zero, negative ones included,
\* the breach a handler returns is the formula's value; only zero is guarded.
C11_GuardOnlyForZero ==
    \A r \in Readers :
        (pc[r] = "return" /\ rd[r].BCV # FZero)
            => rd[r].Breach = FormulaTable[rd[r].BCV][rd[r].Binance]

\* ---- C12 ----
\* C12: the UpdatedAt a handler returns is the later of the two timestamps
\* the last completed SetBCV and SetBinance wrote, and is the zero time only
\* when neither Set has ever completed.
C12_UpdatedAtIsMax ==
    \A r \in Readers :
        pc[r] = "return" =>
            LET ta == committed["bcv"][2]
                tb == committed["binance"][2]
            IN  /\ rd[r].UpdatedAt = (IF ta >= tb THEN ta ELSE tb)
                /\ rd[r].UpdatedAt = 0 <=> (ta = 0 /\ tb = 0)

\* a handler returns a snapshot whose Binance write is later than its BCV
\* write
C12_Witness ==
    \E r \in Readers :
        /\ pc[r] = "return"
        /\ rd[r].bcvTime > 0
        /\ rd[r].binTime > rd[r].bcvTime
        /\ rd[r].UpdatedAt = rd[r].binTime

\* ---- C13 ----
\* C13: every result of nextBCVRunTime is at 11:30 of its day in VET and the
\* day is a Monday to Friday.
C13_TargetIsWeekday1130 ==
    cal.nextRun # NoInstant =>
        /\ cal.nextRun % TicksPerDay = TargetTick
        /\ Weekday(cal.nextRun) \in 0 .. 4

\* nextBCVRunTime was called on a Saturday and answered the Monday after
C13_Witness ==
    /\ cal.nextRun # NoInstant
    /\ Weekday(cal.asOf) = 5
    /\ Day(cal.nextRun) = Day(cal.asOf) + 2

\* ---- C14 ----
\* C14: every result of nextBCVRunTime is strictly later than the `now` it
\* was computed from.
C14_TargetStrictlyLater ==
    cal.nextRun # NoInstant => cal.nextRun > cal.asOf

\* ---- C15 ----
\* the first Monday-to-Friday day from day d on
FirstWeekdayFrom(d) ==
    IF d % 7 = 5 THEN d + 2 ELSE IF d % 7 = 6 THEN d + 1 ELSE d

\* C15: called on a weekday before 11:30 nextBCVRunTime answers 11:30 of the
\* same day; called after 11:30 of any day it answers 11:30 of the first
\* Monday-to-Friday day after that day.
C15_DaySelection ==
    cal.nextRun # NoInstant =>
        /\ (Weekday(cal.asOf) \in 0 .. 4 /\ cal.asOf % TicksPerDay < TargetTick)
              => cal.nextRun = Day(cal.asOf) * TicksPerDay + TargetTick
        /\ cal.asOf % TicksPerDay > TargetTick
              => cal.nextRun =
                   FirstWeekdayFrom(Day(cal.asOf) + 1) * TicksPerDay + TargetTick

\* called on Friday 12:00, nextBCVRunTime answered Monday 11:30
C15_Witness ==
    /\ cal.asOf = 4 * TicksPerDay + 12 * 2
    /\ cal.nextRun = 7 * TicksPerDay + TargetTick

\* ---- C17 ----
\* C17: a wake on the day of its target, a Monday to Friday in VET, calls
\* FetchBCV, whatever zone the process runs in.
C17_WeekdayTargetRefreshed ==
    (cal.last # "none" /\ Day(cal.wake) = Day(cal.target))
        => cal.last = "fetch"

\* ---- C18 ----
\* C18: no target's day leads to two FetchBCV calls.
C18_OncePerDay == ~cal.dup

\* ---- C19 ----
\* C19: a wake calls FetchBCV only on a day that is a Monday to Friday in
\* VET; a wake on a VET Saturday or Sunday skips the fetch.
C19_FetchOnlyOnVetWeekday ==
    cal.last = "fetch" => Weekday(cal.wake) \in 0 .. 4

\* ---- C16 ----
\* C16: Initialize calls FetchBinance while no call of it has returned and
\* FetchBCV when exactly one has, main being in one call at a time; past
\* Initialize both calls have returned; and from the return of FetchBinance
\* until the jobs are launched the Binance field is what that call left,
\* whatever FetchBCV does.
C16_InitializeOrder ==
    /\ pc["main"] = "init_binance" =>
          /\ initRets = 0
          /\ rpc["main"] # "none" => rsrc["main"] = "binance"
    /\ pc["main"] = "init_bcv" =>
          /\ initRets = 1
          /\ rpc["main"] # "none" => rsrc["main"] = "bcv"
    /\ pc["main"] \notin {"init_binance", "init_bcv"} =>
          /\ initRets = 2
          /\ rpc["main"] = "none"
    /\ pc["main"] \in {"init_bcv", "go_binance"} =>
          /\ StorePair("binance") = committed["binance"]
          /\ store.binance = lastOk["binance"].v
          /\ lastOk["binance"].ok <=> store.binTime > 0

\* Initialize has returned with FetchBinance's write in the store and
\* FetchBCV failed
C16_Witness ==
    /\ pc["main"] = "go_binance"
    /\ lastOk["binance"].ok
    /\ store.binTime > 0
    /\ ~lastOk["bcv"].ok

\* ---- C20 ----
\* C20, state part: Stop has not returned while a job is in a Fetch call,
\* and a job's Fetch call whose Fetcher gave a reading has, when it returns,
\* returned nil with the reading in the store, the stop channel closed or not.
CooperativeState ==
    /\ (\E j \in Jobs : rpc[j] # "none") => ~Stopped
    /\ \A j \in Jobs :
          (rpc[j] = "returned" /\ ferr[j] = "nil") =>
              /\ ret[j] = "nil"
              /\ store[ValField(rsrc[j])] = rate[j]

\* C20: Stop does not return while a job's Fetch call is in flight, a call
\* in flight runs to its end, store write included; and with every Fetcher
\* call returning, Stop, once called, returns.
C20_CooperativeStop ==
    /\ [](CooperativeState)
    /\ (pc["main"] = "wg_wait") ~> (pc["main"] = "stopped")

\* Stop waits while a job's Fetch call, the stop channel already closed,
\* returns nil with its reading stored
C20_Witness ==
    \E j \in Jobs :
        /\ pc["main"] = "wg_wait"
        /\ stop
        /\ rpc[j] = "returned"
        /\ ferr[j] = "nil"
        /\ ret[j] = "nil"
        /\ FPositive(rate[j])
        /\ store[ValField(rsrc[j])] = rate[j]

\* ---- C21 ----
\* the head of the loop of the job j
LoopHead(j) == IF j = "binanceJob" THEN "select" ELSE "next"

\* the job j has left its loop
LeftLoop(j) == pc[j] \in {"stopcase", "exited"}

\* C21, step part: the step that takes a failed Fetch call back to its job
\* drops the error and puts the job at the head of its loop, the interval
\* job's ticker still running; and a job leaves its loop only on a step
\* taken with the stop channel closed.
FailureKeepsLoop ==
    \A j \in Jobs :
        /\ (rpc[j] = "returned" /\ ret[j] \in Errors /\ rpc'[j] # "returned")
              => /\ pc'[j] = LoopHead(j)
                 /\ ret'[j] = "none"
                 /\ rpc'[j] = "none"
                 /\ j = "binanceJob" => ticker' # "off"
        /\ (~LeftLoop(j) /\ pc'[j] \in {"stopcase", "exited"}) => stop'

Other(src) == IF src = "bcv" THEN "binance" ELSE "bcv"

\* C22, step part: a step that changes the value or the timestamp of a source
\* is a step of a caller that is inside the Set call of that source, holding
\* the write lock, with a reading its Fetcher returned without error; and
\* the step leaves the other source's value and timestamp as they were.
FieldsIndependent ==
    \A src \in Sources :
        (store'[ValField(src)] # store[ValField(src)]
            \/ store'[TimeField(src)] # store[TimeField(src)])
        => /\ \E p \in Procs :
                 /\ rsrc[p] = src
                 /\ rpc[p] \in {"set_val", "set_time"}
                 /\ rpc'[p] # rpc[p]
                 /\ ferr[p] = "nil"
                 /\ mu.writer = p
           /\ store'[ValField(Other(src))] = store[ValField(Other(src))]
           /\ store'[TimeField(Other(src))] = store[TimeField(Other(src))]

\* C22: a Refresh of one source never changes the other source's value or
\* timestamp, and only a successful Refresh, through its Set call, writes
\* the store.
C22_FieldsIndependent == [][FieldsIndependent]_vars

\* the calendar job's Refresh has stored a later BCV reading while the
\* Binance pair is still the one Initialize wrote, and reversely the
\* interval job is storing a Binance reading
C22_Witness ==
    /\ rpc["bcvDailyJob"] = "returned"
    /\ ret["bcvDailyJob"] = "nil"
    /\ store.bcvTime = 2
    /\ rpc["binanceJob"] = "set_val"
    /\ store.binTime = 1
    /\ FPositive(store.binance)
    /\ rate["binanceJob"] # store.binance

\* ---- C23 ----
\* 72 hours, in half hours
LongestWait == 72 * 2

\* the time of day of an instant, in half hours since 00:00 VET
TimeOfDay(t) == t - Day(t) * TicksPerDay

\* C23: the wait the calendar job computed is at most 72 hours for every
\* instant of the half hour that ends at the clock reading it was computed
\* from (they share the reading's target, and the earliest of them waits
\* less than half an hour more); and the longest wait of a clock reading,
\* 71:30, is computed only on a Friday at 12:00 VET, the first reading after
\* 11:30, with Monday 11:30 VET as the target.
C23_WaitAtMost72h ==
    cal.nextRun # NoInstant =>
        LET wait == cal.nextRun - cal.asOf
        IN  /\ wait + 1 <= LongestWait
            /\ wait >= LongestWait - 1 =>
                  /\ Weekday(cal.asOf) = 4
                  /\ TimeOfDay(cal.asOf) = TargetTick + 1
                  /\ Weekday(cal.nextRun) = 0
                  /\ TimeOfDay(cal.nextRun) = TargetTick

\* the job, computing on a Friday at 12:00 VET, waits until Monday 11:30
C23_Witness ==
    /\ cal.nextRun # NoInstant
    /\ Weekday(cal.asOf) = 4
    /\ TimeOfDay(cal.asOf) = TargetTick + 1
    /\ cal.nextRun - cal.asOf = LongestWait - 1
    /\ pc["bcvDailyJob"] = "parked"

\* ---- C25 ----
\* t is 11:30:00 VET of a Monday to Friday
WeekdayRun(t) == Weekday(t) \in 0 .. 4 /\ TimeOfDay(t) = TargetTick

\* C25: the result of nextBCVRunTime is a Monday-to-Friday 11:30 VET not
\* earlier than the `now` it was computed from, and no Monday-to-Friday
\* 11:30 VET lies between that `now`, included, and the result.
C25_NoRunSkipped ==
    cal.nextRun # NoInstant =>
        /\ cal.nextRun >= cal.asOf
        /\ WeekdayRun(cal.nextRun)
        /\ \A u \in cal.asOf .. (cal.nextRun - 1) : ~WeekdayRun(u)

\* computed at 11:30:00 of a Wednesday, the result is that very instant
C25_Witness ==
    /\ cal.nextRun # NoInstant
    /\ cal.nextRun = cal.asOf
    /\ Weekday(cal.asOf) = 2
    /\ pc["bcvDailyJob"] = "parked"

\* ---- C24 ----
\* the callers that are in a Fetch call of the source src
InFlight(src) == {p \in Procs : rpc[p] # "none" /\ rsrc[p] = src}

\* C24: at most one Fetch call of each source is in flight; a job in a Fetch
\* call is the interval job on Binance or the calendar job on BCV; and while
\* Initialize is in a Fetch call no job has been launched.
C24_OneFetchPerSource ==
    /\ \A src \in Sources : Cardinality(InFlight(src)) <= 1
    /\ rpc["binanceJob"] # "none" => rsrc["binanceJob"] = "binance"
    /\ rpc["bcvDailyJob"] # "none" => rsrc["bcvDailyJob"] = "bcv"
    /\ rpc["main"] # "none" =>
          \A j \in Jobs : pc[j] = "notstarted" /\ rpc[j] = "none"

\* both jobs are in a Fetch call at once, one of each source, the interval
\* job in its Set and the calendar job's Fetcher not yet back
C24_Witness ==
    /\ InFlight("binance") = {"binanceJob"}
    /\ InFlight("bcv") = {"bcvDailyJob"}
    /\ rpc["binanceJob"] = "set_time"
    /\ rpc["bcvDailyJob"] = "fetching"

\* ---- C10 ----
\* C10: with the stored BCV value zero the breach a handler returns is zero
\* whatever the Binance value, and no breach returned is the outcome of a
\* division by zero.
C10_ZeroBcvZeroBreach ==
    \A r \in Readers :
        pc[r] = "return" =>
            /\ rd[r].BCV = FZero => rd[r].Breach = FZero
            /\ ~IsNonFinite(rd[r].Breach)

\* a handler returns a snapshot with BCV unset and Binance set
C10_Witness ==
    \E r \in Readers :
        /\ pc[r] = "return"
        /\ rd[r].BCV = FZero
        /\ FPositive(rd[r].Binance)
        /\ rd[r].Breach = FZero

====
